---- MODULE Spec2Model ----
(***************************************************************************)
(* AI Utility Hub (CC_ISE): an Express backend that proxies four utility   *)
(* endpoints to the Gemini generateContent API, and the React frontend     *)
(* that calls it.                                                          *)
(*                                                                         *)
(*   Spec       the backend of src/ai-utility-backend/server.js: requests  *)
(*              arrive, are validated, make one upstream call, and are     *)
(*              answered when the call settles.                            *)
(*   SpecParse  the JSON-producing callLLM of the earlier server.js (kept  *)
(*              in src/ai-utility-frontend/src/App.js, lines 289-471),     *)
(*              applied to every upstream reply within the bounds.         *)
(*   SpecNorm   the output normalizer normalize(raw, serviceId), applied   *)
(*              to every raw value and service within the bounds.          *)
(*   SpecFront  the App component of src/ai-utility-frontend/src/App.js:   *)
(*              the user types, selects a service, clears and submits,     *)
(*              and the fetch of a submit settles.  SpecFrontLive adds     *)
(*              that a fetch, once started, settles.                       *)
(*                                                                         *)
(* JavaScript strings are sequences of one-character strings; JavaScript   *)
(* values are records [t, s, n] (type tag, characters, number).            *)
(***************************************************************************)
EXTENDS Integers, Sequences, FiniteSets, TLC

VARIABLES
  \* the backend (server.js)
  alive,        \* the server process is running
  phase,        \* per request: new, awaiting, done, unanswered, reset
  endpoint,     \* per request: the service of the endpoint it was sent to
  body,         \* per request: req.body
  calls,        \* per request: the payloads posted upstream for it
  reply,        \* per request: how its axios.post settled
  result,       \* per request: what callLLM returned
  resp,         \* per request: the response sent
  \* the JSON-producing callLLM (the earlier server.js kept in App.js)
  parseReply,   \* how axios.post settled
  parseResult,  \* what callLLM returned
  \* the output normalizer
  raw,          \* the model response handed to normalize
  serviceId,    \* the service it is normalized for
  normalized,   \* the result of normalize
  \* the frontend (App.js): the state of the App component
  service,      \* the selected service
  input,        \* the textarea
  extra,        \* the recipient role and tone inputs
  loading,      \* a submit is being processed
  jsonResult,   \* the result shown, or null
  error,        \* the error shown, or null
  pending,      \* the handleSubmit calls that have not returned yet
  cleared       \* history: Clear or a service card was clicked since the
                \* last submit

backendVars == <<alive, phase, endpoint, body, calls, reply, result, resp>>
parseVars == <<parseReply, parseResult>>
normVars == <<raw, serviceId, normalized>>
frontVars ==
  <<service, input, extra, loading, jsonResult, error, pending, cleared>>
vars == <<backendVars, parseVars, normVars, frontVars>>

(***************************************************************************)
(* Bounds of the model.                                                    *)
(***************************************************************************)
\* Requests the clients send in one behaviour (they may all be in flight).
MaxReq == 2
\* Longest text of an upstream candidate.
MaxTextLen == 2
\* Most candidates in one upstream reply.
MaxCandidates == 2

(***************************************************************************)
(* Program constants.                                                      *)
(***************************************************************************)
\* axios timeout of the upstream call, in ms.
TimeoutMs == 30000
\* The echoed code / text is cut to this many characters.
SliceLimit == 500

Requests == 1..MaxReq

(***************************************************************************)
(* JavaScript values and strings.                                          *)
(***************************************************************************)
Undefined == [t |-> "undefined", s |-> <<>>, n |-> 0]
Str(s) == [t |-> "string", s |-> s, n |-> 0]
Num(n) == [t |-> "number", s |-> <<>>, n |-> n]
\* The empty array [] (truthy, and it has a slice method).
EmptyArr == [t |-> "array", s |-> <<>>, n |-> 0]

\* !v is false
Truthy(v) ==
  CASE v.t = "undefined" -> FALSE
    [] v.t = "string" -> Len(v.s) > 0
    [] v.t = "number" -> v.n # 0
    [] OTHER -> TRUE

\* typeof v.slice === 'function'
HasSlice(v) == v.t \in {"string", "array"}

WhiteSpace == {" ", "\n"}

RECURSIVE TrimStart(_)
TrimStart(s) ==
  IF Len(s) > 0 /\ Head(s) \in WhiteSpace THEN TrimStart(Tail(s)) ELSE s

RECURSIVE TrimEnd(_)
TrimEnd(s) ==
  IF Len(s) > 0 /\ s[Len(s)] \in WhiteSpace
    THEN TrimEnd(SubSeq(s, 1, Len(s) - 1))
    ELSE s

\* String.prototype.trim
Trim(s) == TrimEnd(TrimStart(s))

\* s.slice(0, n) of a string
Slice(s, n) == SubSeq(s, 1, IF Len(s) < n THEN Len(s) ELSE n)

SeqsUpTo(S, n) == UNION {[1..k -> S] : k \in 0..n}

(***************************************************************************)
(* Requests: the endpoint and the JSON body.                               *)
(***************************************************************************)
Services == {"summarize", "email", "explain-code", "rewrite"}

\* Values a required field of the body takes.
FieldValues == {Undefined, Str(<<>>), Str(<<"a">>), Num(42), EmptyArr}
\* Values an optional field of the body takes.
OptionalValues == {Undefined, Str(<<"a">>)}

NoFields ==
  [text |-> Undefined, tone |-> Undefined, details |-> Undefined,
   code |-> Undefined, recipientRole |-> Undefined, purpose |-> Undefined]

\* The bodies sent to an endpoint: the fields its handler destructures.
Bodies(e) ==
  CASE e = "summarize" -> {[NoFields EXCEPT !.text = v] : v \in FieldValues}
    [] e = "email" ->
         {[NoFields EXCEPT !.details = v, !.tone = o] :
            v \in FieldValues, o \in OptionalValues}
    [] e = "explain-code" -> {[NoFields EXCEPT !.code = v] : v \in FieldValues}
    [] e = "rewrite" ->
         {[NoFields EXCEPT !.text = v, !.tone = o] :
            v \in FieldValues, o \in OptionalValues}

(***************************************************************************)
(* The upstream: how the axios.post promise of callLLM settles.            *)
(***************************************************************************)
TextChars == {"a", " "}

\* The text of one candidate: candidates[i]?.content?.parts?.[0]?.text
CandidateTexts ==
  {Undefined, Num(42)} \cup {Str(s) : s \in SeqsUpTo(TextChars, MaxTextLen)}

\* Every candidate after the first one carries this text.
OtherText == Str(<<"b">>)

CandidateLists ==
  {c \in SeqsUpTo(CandidateTexts \cup {OtherText}, MaxCandidates) :
     /\ Len(c) > 0 => c[1] \in CandidateTexts
     /\ \A i \in 2..Len(c) : c[i] = OtherText}

NoReply ==
  [kind |-> "none", status |-> 0, hasData |-> FALSE, hasCandidates |-> FALSE,
   candidates |-> <<>>]

\* A 2xx reply whose body is the object {candidates: c}.
OkReply(c) == [NoReply EXCEPT !.kind = "ok", !.status = 200, !.hasData = TRUE,
                              !.hasCandidates = TRUE, !.candidates = c]

Replies ==
  \* rejections of the promise: timeout, network failure, non-2xx status
  {[NoReply EXCEPT !.kind = "timeout"], [NoReply EXCEPT !.kind = "network"],
   [NoReply EXCEPT !.kind = "http", !.status = 500, !.hasData = TRUE]}
  \cup
  \* 2xx with a null body, and with a body that has no candidates field
  {[NoReply EXCEPT !.kind = "ok", !.status = 200],
   [NoReply EXCEPT !.kind = "ok", !.status = 200, !.hasData = TRUE]}
  \cup {OkReply(c) : c \in CandidateLists}

UpstreamFailed(u) == u.kind \in {"timeout", "network", "http"}

(***************************************************************************)
(* callLLM: the result of the upstream call.                               *)
(***************************************************************************)
NoError == [form |-> "none", status |-> 0, msg |-> ""]
\* { status: err.response.status, data: err.response.data }
ResponseError(status) == [form |-> "response", status |-> status, msg |-> "data"]
\* { message: err.message }
MessageError(msg) == [form |-> "message", status |-> 0, msg |-> msg]
\* the string of a 400 answer
StringError(msg) == [form |-> "string", status |-> 0, msg |-> msg]

NoResult == [ok |-> FALSE, data |-> Undefined, error |-> NoError]
Ok(data) == [ok |-> TRUE, data |-> data, error |-> NoError]
Failed(err) == [ok |-> FALSE, data |-> Undefined, error |-> err]

\* candidates[0]?.content?.parts?.[0]?.text || ''
FirstText(candidates) ==
  IF Len(candidates) > 0 /\ Truthy(candidates[1]) THEN candidates[1] ELSE Str(<<>>)

\* return { ok: true, data: text.trim() }; a text without a trim method
\* throws inside the try block.
TrimmedResult(text) ==
  IF text.t = "string" THEN Ok(Str(Trim(text.s)))
  ELSE Failed(MessageError("text.trim is not a function"))

\* The catch block: what the rejection of axios.post becomes.
CaughtError(u) ==
  CASE u.kind = "http" -> ResponseError(u.status)
    [] u.kind = "timeout" -> MessageError("timeout exceeded")
    [] OTHER -> MessageError("Network Error")

\* callLLM, with a timeout taken for an empty reply instead of an error.
callLLM_TimeoutAsEmpty(u) ==
  IF u.kind = "timeout" THEN Ok(Str(<<>>))
  ELSE IF UpstreamFailed(u) THEN Failed(CaughtError(u))
  ELSE IF ~u.hasData
    THEN Failed(MessageError("Cannot read properties of null"))
    ELSE TrimmedResult(FirstText(IF u.hasCandidates THEN u.candidates ELSE <<>>))

\* callLLM after its await: u is how axios.post settled.
callLLM(u) ==
  IF UpstreamFailed(u) THEN Failed(CaughtError(u))
  ELSE IF ~u.hasData
    THEN Failed(MessageError("Cannot read properties of null"))
    ELSE TrimmedResult(FirstText(IF u.hasCandidates THEN u.candidates ELSE <<>>))

\* The request callLLM posts: the prompt, generationConfig.maxOutputTokens and
\* the axios timeout.
Payload(template, fields, maxTokens) ==
  [template |-> template, fields |-> fields, maxOutputTokens |-> maxTokens,
   timeout |-> TimeoutMs]

(***************************************************************************)
(* The four handlers.                                                      *)
(***************************************************************************)
\* Invalid, with the rewrite handler testing text alone.
Invalid_ToneUnchecked(e, b) ==
  CASE e = "summarize" -> IF ~Truthy(b.text) THEN "text is required" ELSE ""
    [] e = "email" -> IF ~Truthy(b.details) THEN "details is required" ELSE ""
    [] e = "explain-code" -> IF ~Truthy(b.code) THEN "code is required" ELSE ""
    [] e = "rewrite" ->
         IF ~Truthy(b.text) THEN "text and tone are required" ELSE ""

\* The validation at the top of each handler: the 400 message, "" if valid.
Invalid(e, b) ==
  CASE e = "summarize" -> IF ~Truthy(b.text) THEN "text is required" ELSE ""
    [] e = "email" -> IF ~Truthy(b.details) THEN "details is required" ELSE ""
    [] e = "explain-code" -> IF ~Truthy(b.code) THEN "code is required" ELSE ""
    [] e = "rewrite" ->
         IF ~Truthy(b.text) \/ ~Truthy(b.tone)
           THEN "text and tone are required" ELSE ""

promptSummarize(text) == Payload("summarize", [NoFields EXCEPT !.text = text], 300)

promptEmailGen(context) ==
  Payload("email",
          [context EXCEPT
             !.recipientRole = IF Truthy(@) THEN @ ELSE Str(<<"colleague">>),
             !.tone = IF Truthy(@) THEN @ ELSE Str(<<"professional">>),
             !.purpose = IF Truthy(@) THEN @ ELSE Str(<<"requesting meeting">>)],
          300)

promptExplainCode(code) ==
  Payload("explain-code", [NoFields EXCEPT !.code = code], 600)

promptRewriteTone(text, tone) ==
  Payload("rewrite", [NoFields EXCEPT !.text = text, !.tone = tone], 300)

\* The upstream request a handler makes for a valid body.
Prompt(e, b) ==
  CASE e = "summarize" -> promptSummarize(b.text)
    [] e = "email" ->
         promptEmailGen([NoFields EXCEPT !.recipientRole = b.recipientRole,
                           !.tone = b.tone, !.purpose = b.purpose,
                           !.details = b.details])
    [] e = "explain-code" -> promptExplainCode(b.code)
    [] e = "rewrite" -> promptRewriteTone(b.text, b.tone)

\* code.slice(0, 500) + (code.length > 500 ? '...[truncated]' : '') for a value
\* that has a slice method: a string, or the empty array (which + '' makes '').
SlicedCode(code) ==
  IF code.t = "string"
    THEN Str(Slice(code.s, SliceLimit)
             \o (IF Len(code.s) > SliceLimit THEN <<"...[truncated]">> ELSE <<>>))
    ELSE Str(<<>>)

\* text.slice(0, 500)
SlicedText(text) ==
  IF text.t = "string" THEN Str(Slice(text.s, SliceLimit)) ELSE text

\* Building the 200 envelope throws a TypeError: the echoed field has no slice.
EnvelopeThrows(e, b) ==
  CASE e = "explain-code" -> ~HasSlice(b.code)
    [] e = "rewrite" -> ~HasSlice(b.text)
    [] OTHER -> FALSE

\* The input member of the 200 envelope.
EchoInput(e, b) ==
  CASE e = "summarize" -> [NoFields EXCEPT !.text = b.text]
    [] e = "email" ->
         [NoFields EXCEPT !.recipientRole = b.recipientRole, !.tone = b.tone,
                          !.purpose = b.purpose, !.details = b.details]
    [] e = "explain-code" -> [NoFields EXCEPT !.code = SlicedCode(b.code)]
    [] e = "rewrite" ->
         [NoFields EXCEPT !.tone = b.tone, !.text = SlicedText(b.text)]

NoResp ==
  [status |-> 0, success |-> FALSE, service |-> "", error |-> NoError,
   input |-> NoFields, output |-> Undefined]

\* res.status(400).json({ success: false, error: msg })
BadRequest(msg) == [NoResp EXCEPT !.status = 400, !.error = StringError(msg)]

\* res.status(502).json({ success: false, service, error: result.error })
BadGateway(e, err) ==
  [NoResp EXCEPT !.status = 502, !.service = e, !.error = err]

\* res.json({ success: true, service, input, output: result.data })
Envelope(e, b, data) ==
  [NoResp EXCEPT !.status = 200, !.success = TRUE, !.service = e,
                 !.input = EchoInput(e, b), !.output = data]

\* The answer of Express 5's default error handler to a rejected handler.
InternalError == [NoResp EXCEPT !.status = 500]

(***************************************************************************)
(* The JSON-producing callLLM (App.js 321-363).  A model text is a         *)
(* sequence over JsonChars, where Fence stands for the three backquotes of  *)
(* a code fence, "json" for its language tag, "1" for a digit and "x" for   *)
(* any character that is not JSON.                                         *)
(***************************************************************************)
\* Longest model text of the JSON-producing variant.
MaxRawLen == 6

Fence == "<fence>"
JsonChars == {Fence, "json", " ", "1", "x"}

\* text.replace(/^<fence>json\s*/i, '')
StripJsonFence(s) ==
  IF Len(s) >= 2 /\ s[1] = Fence /\ s[2] = "json"
    THEN TrimStart(SubSeq(s, 3, Len(s)))
    ELSE s

\* text.replace(/^<fence>\s*/i, '')
StripOpenFence(s) ==
  IF Len(s) >= 1 /\ s[1] = Fence THEN TrimStart(Tail(s)) ELSE s

\* text.replace(/<fence>\s*$/i, '')
StripCloseFence(s) ==
  LET t == TrimEnd(s)
  IN  IF Len(t) >= 1 /\ t[Len(t)] = Fence THEN SubSeq(t, 1, Len(t) - 1) ELSE s

\* const cleaned = text.replace(...).replace(...).replace(...).trim()
Cleaned(s) == Trim(StripCloseFence(StripOpenFence(StripJsonFence(s))))

\* JSON.parse(s) does not throw: over JsonChars, s is a number.
JSONValid(s) == Len(s) > 0 /\ \A i \in 1..Len(s) : s[i] = "1"

RECURSIVE Decimal(_)
Decimal(s) == IF Len(s) = 0 THEN 0 ELSE 10 * Decimal(SubSeq(s, 1, Len(s) - 1)) + 1

\* JSON.parse(s) of a valid s
JSONParse(s) == Num(Decimal(s))

\* ParseOrRaw, with the catch block keeping the cleaned text.
ParseOrRaw_KeepsCleaned(text) ==
  IF text.t # "string" THEN text
  ELSE IF JSONValid(Cleaned(text.s)) THEN JSONParse(Cleaned(text.s))
  ELSE Str(Cleaned(text.s))

\* The inner try/catch: the decoded value, or the text itself when the
\* decoding (or text.replace, on a text that is no string) throws.
ParseOrRaw(text) ==
  IF text.t = "string" /\ JSONValid(Cleaned(text.s))
    THEN JSONParse(Cleaned(text.s))
    ELSE text

\* callLLM of the JSON-producing variant, after its await.
callLLMJson(u) ==
  IF UpstreamFailed(u) THEN Failed(CaughtError(u))
  ELSE IF ~u.hasData
    THEN Failed(MessageError("Cannot read properties of null"))
    ELSE Ok(ParseOrRaw(FirstText(IF u.hasCandidates THEN u.candidates ELSE <<>>)))

JsonReplies ==
  {[NoReply EXCEPT !.kind = "timeout"], [NoReply EXCEPT !.kind = "network"],
   [NoReply EXCEPT !.kind = "http", !.status = 500, !.hasData = TRUE],
   [NoReply EXCEPT !.kind = "ok", !.status = 200],
   [NoReply EXCEPT !.kind = "ok", !.status = 200, !.hasData = TRUE],
   OkReply(<<Undefined>>), OkReply(<<Num(42)>>)}
  \cup {OkReply(<<Str(s)>>) : s \in SeqsUpTo(JsonChars, MaxRawLen)}

(***************************************************************************)
(* The output normalizer normalize(raw, serviceId).  A raw value is        *)
(* undefined, a string, a number, or a decoded object whose members are    *)
(* strings or lists of strings.                                            *)
(***************************************************************************)
\* Most entries of a bullets or steps list.
MaxItems == 2

Absent == [k |-> "absent", s |-> <<>>, l |-> <<>>]
SField(s) == [k |-> "string", s |-> s, l |-> <<>>]
LField(l) == [k |-> "list", s |-> <<>>, l |-> l]

KeyOrder ==
  <<"summary", "bullets", "subject", "body", "steps", "complexity", "rewritten">>

NoKeys ==
  [summary |-> Absent, bullets |-> Absent, subject |-> Absent, body |-> Absent,
   steps |-> Absent, complexity |-> Absent, rewritten |-> Absent]

NoRaw == [t |-> "none", s |-> <<>>, n |-> 0, f |-> NoKeys]
RawUndefined == [NoRaw EXCEPT !.t = "undefined"]
RawStr(s) == [NoRaw EXCEPT !.t = "string", !.s = s]
RawNum(n) == [NoRaw EXCEPT !.t = "number", !.n = n]
RawObj(f) == [NoRaw EXCEPT !.t = "object", !.f = f]

\* The result of normalize: a string, or an error raised.
Pending == [t |-> "pending", s |-> <<>>]
Text(s) == [t |-> "string", s |-> s]
Raised == [t |-> "error", s |-> <<>>]

NewLine == "\n"
BlankLine == <<NewLine, NewLine>>
\* The bullet marker and a space; "*" stands for the bullet character U+2022.
BulletMark == <<"*", " ">>

DigitChars == <<"0", "1", "2", "3", "4", "5", "6", "7", "8", "9">>

\* String(n) of a natural number
RECURSIVE Digits(_)
Digits(n) ==
  IF n < 10 THEN <<DigitChars[n + 1]>>
  ELSE Digits(n \div 10) \o <<DigitChars[(n % 10) + 1]>>

\* BulletLines, with the bullets in reverse order.
RECURSIVE BulletLines_Reversed(_, _)
BulletLines_Reversed(l, i) ==
  IF i > Len(l) THEN <<>>
  ELSE BulletMark \o l[Len(l) + 1 - i]
       \o (IF i < Len(l) THEN <<NewLine>> ELSE <<>>)
       \o BulletLines_Reversed(l, i + 1)

\* The bullets, one per line, each after the bullet marker.
RECURSIVE BulletLines(_, _)
BulletLines(l, i) ==
  IF i > Len(l) THEN <<>>
  ELSE BulletMark \o l[i] \o (IF i < Len(l) THEN <<NewLine>> ELSE <<>>)
       \o BulletLines(l, i + 1)

\* The steps, one per line, numbered from i on.
RECURSIVE NumberedLines(_, _)
NumberedLines(l, i) ==
  IF i > Len(l) THEN <<>>
  ELSE Digits(i) \o <<".", " ">> \o l[i]
       \o (IF i < Len(l) THEN <<NewLine>> ELSE <<>>)
       \o NumberedLines(l, i + 1)

Quoted(s) == <<"\"">> \o s \o <<"\"">>

RECURSIVE QuotedList(_, _)
QuotedList(l, i) ==
  IF i > Len(l) THEN <<>>
  ELSE Quoted(l[i]) \o (IF i < Len(l) THEN <<",">> ELSE <<>>)
       \o QuotedList(l, i + 1)

DumpField(v) ==
  IF v.k = "list" THEN <<"[">> \o QuotedList(v.l, 1) \o <<"]">> ELSE Quoted(v.s)

\* The members of an object from the i-th key on; first: none was written yet.
RECURSIVE DumpMembers(_, _, _)
DumpMembers(f, i, first) ==
  IF i > Len(KeyOrder) THEN <<>>
  ELSE LET key == KeyOrder[i]
       IN  IF f[key].k = "absent" THEN DumpMembers(f, i + 1, first)
           ELSE (IF first THEN <<>> ELSE <<",">>)
                \o Quoted(<<key>>) \o <<":">> \o DumpField(f[key])
                \o DumpMembers(f, i + 1, FALSE)

\* The stringified dump of a whole value.
Dump(v) ==
  CASE v.t = "object" -> <<"{">> \o DumpMembers(v.f, 1, TRUE) \o <<"}">>
    [] v.t = "number" -> Digits(v.n)
    [] OTHER -> v.s

Has(v, key) == v.f[key].k # "absent"

\* HasExpected, with no test of what the value carries.
HasExpected_Unchecked(v, sid) == TRUE

\* The value carries a member the service reads.
HasExpected(v, sid) ==
  CASE sid = "summarize" -> Has(v, "summary") \/ Has(v, "bullets")
    [] sid = "email" -> Has(v, "subject") \/ Has(v, "body")
    [] sid = "explain-code" ->
         Has(v, "summary") \/ Has(v, "steps") \/ Has(v, "complexity")
    [] sid = "rewrite" -> Has(v, "rewritten")
    [] OTHER -> FALSE

\* The composed string of a decoded object, per service.
Compose(v, sid) ==
  CASE sid = "summarize" ->
         Text(Trim(v.f.summary.s \o BlankLine \o BulletLines(v.f.bullets.l, 1)))
    [] sid = "email" ->
         Text(Trim(<<"Subject:", " ">> \o v.f.subject.s \o BlankLine
                   \o v.f.body.s))
    [] sid = "explain-code" ->
         Text(v.f.summary.s \o BlankLine \o NumberedLines(v.f.steps.l, 1)
              \o BlankLine \o <<"Complexity:", " ">> \o v.f.complexity.s)
    [] sid = "rewrite" -> Text(v.f.rewritten.s)
    [] OTHER -> Raised

normalize(v, sid) ==
  IF v.t = "undefined" \/ (v.t = "string" /\ v.s = <<>>) THEN Text(<<>>)
  ELSE IF v.t = "string" THEN Text(v.s)
  ELSE IF v.t = "object" /\ HasExpected(v, sid) THEN Compose(v, sid)
  ELSE Text(Dump(v))

\* The inputs of normalize.
ServiceIds == Services \cup {"translate"}
FieldStrings == {<<>>, <<"o", "k">>, <<" ", "o", "k", " ">>}
ItemStrings == {<<"a">>, <<"b">>, <<" ", "c">>}
OptString == {Absent} \cup {SField(s) : s \in FieldStrings}
OptList == {Absent} \cup {LField(l) : l \in SeqsUpTo(ItemStrings, MaxItems)}

RawObjects ==
  {RawObj([NoKeys EXCEPT !.summary = a, !.bullets = b]) :
     a \in OptString, b \in OptList}
  \cup {RawObj([NoKeys EXCEPT !.subject = a, !.body = b]) :
          a \in OptString, b \in OptString}
  \cup {RawObj([NoKeys EXCEPT !.summary = a, !.steps = b, !.complexity = c]) :
          a \in OptString, b \in OptList, c \in OptString}
  \cup {RawObj([NoKeys EXCEPT !.rewritten = a]) : a \in OptString}

RawValues ==
  {RawUndefined, RawNum(42)} \cup {RawStr(s) : s \in FieldStrings} \cup RawObjects

(***************************************************************************)
(* The backend as a state machine.                                         *)
(*                                                                         *)
(* A handler that throws after its await rejects its promise, and nothing  *)
(* in server.js catches it.  What follows depends on the installed Express *)
(* and Node, which the repository does not pin, so the model takes any of: *)
(*   forwarded  Express 5 passes the rejection to its error handler: 500   *)
(*   ignored    Express 4 never sees it: the request stays unanswered      *)
(*   fatal      Express 4 on Node >= 15: the unhandled rejection ends the  *)
(*              process, and every request in flight is reset              *)
(***************************************************************************)
InFlight(r) == phase[r] = "awaiting"

\* What the output pane holds: null, a decoded response body, or the
\* { message } of a caught error.
Null == [null |-> TRUE, json |-> NoResp, message |-> ""]
Json(j) == [null |-> FALSE, json |-> j, message |-> ""]
Message(m) == [null |-> FALSE, json |-> NoResp, message |-> m]

\* const [extra, setExtra] = useState({})
NoExtra == [recipientRole |-> <<>>, tone |-> <<>>]

\* The App component as first rendered (the useState defaults).
FrontIdle ==
  /\ service = "summarize"
  /\ input = <<>>
  /\ extra = NoExtra
  /\ loading = FALSE
  /\ jsonResult = Null
  /\ error = Null
  /\ pending = <<>>
  /\ cleared = FALSE

\* Nothing has been called or normalized.
ParseIdle == parseReply = NoReply /\ parseResult = NoResult
NormIdle == raw = NoRaw /\ serviceId = "" /\ normalized = Pending

\* The server has started and no request has arrived.
BackendIdle ==
  /\ alive = TRUE
  /\ phase = [r \in Requests |-> "new"]
  /\ endpoint = [r \in Requests |-> "summarize"]
  /\ body = [r \in Requests |-> NoFields]
  /\ calls = [r \in Requests |-> <<>>]
  /\ reply = [r \in Requests |-> NoReply]
  /\ result = [r \in Requests |-> NoResult]
  /\ resp = [r \in Requests |-> NoResp]

Init == BackendIdle /\ ParseIdle /\ NormIdle /\ FrontIdle

\* A request arrives and its handler runs up to its first await: it is
\* answered 400, or callLLM posts the prompt upstream.  Requests are numbered
\* in the order they arrive.
Arrive(r) ==
  /\ alive
  /\ phase[r] = "new"
  /\ \A q \in Requests : q < r => phase[q] # "new"
  /\ \E e \in Services : \E b \in Bodies(e) :
       /\ endpoint' = [endpoint EXCEPT ![r] = e]
       /\ body' = [body EXCEPT ![r] = b]
       /\ IF Invalid(e, b) # ""
            THEN /\ resp' = [resp EXCEPT ![r] = BadRequest(Invalid(e, b))]
                 /\ phase' = [phase EXCEPT ![r] = "done"]
                 /\ calls' = calls
            ELSE /\ calls' = [calls EXCEPT ![r] = Append(@, Prompt(e, b))]
                 /\ phase' = [phase EXCEPT ![r] = "awaiting"]
                 /\ resp' = resp
  /\ UNCHANGED <<alive, reply, result, parseVars, normVars, frontVars>>

\* The axios.post promise settles with u and callLLM returns its result to
\* the handler, which resumes in the same turn of the event loop.
Returned(r, u) ==
  /\ alive
  /\ phase[r] = "awaiting"
  /\ reply' = [reply EXCEPT ![r] = u]
  /\ result' = [result EXCEPT ![r] = callLLM(u)]

\* AnswerFailure, with the handler posting the prompt again after a failure.
AnswerFailure_Retry(r) ==
  /\ \E u \in Replies :
       /\ Returned(r, u)
       /\ ~callLLM(u).ok
  /\ calls' = [calls EXCEPT ![r] = Append(@, Prompt(endpoint[r], body[r]))]
  /\ UNCHANGED <<alive, phase, endpoint, body, resp, parseVars, normVars, frontVars>>

\* The handler resumes with a failed result: 502.
AnswerFailure(r) ==
  /\ \E u \in Replies :
       /\ Returned(r, u)
       /\ ~callLLM(u).ok
       /\ resp' = [resp EXCEPT ![r] = BadGateway(endpoint[r], callLLM(u).error)]
  /\ phase' = [phase EXCEPT ![r] = "done"]
  /\ UNCHANGED <<alive, endpoint, body, calls, parseVars, normVars, frontVars>>

\* The handler resumes with an ok result and answers 200.
AnswerSuccess(r) ==
  /\ ~EnvelopeThrows(endpoint[r], body[r])
  /\ \E u \in Replies :
       /\ Returned(r, u)
       /\ callLLM(u).ok
       /\ resp' = [resp EXCEPT
                     ![r] = Envelope(endpoint[r], body[r], callLLM(u).data)]
  /\ phase' = [phase EXCEPT ![r] = "done"]
  /\ UNCHANGED <<alive, endpoint, body, calls, parseVars, normVars, frontVars>>

\* The handler resumes with an ok result and throws while building the
\* envelope.
HandlerThrows(r) ==
  /\ EnvelopeThrows(endpoint[r], body[r])
  /\ \E u \in Replies :
       /\ Returned(r, u)
       /\ callLLM(u).ok
  /\ \/ \* forwarded
        /\ resp' = [resp EXCEPT ![r] = InternalError]
        /\ phase' = [phase EXCEPT ![r] = "done"]
        /\ alive' = alive
     \/ \* ignored
        /\ phase' = [phase EXCEPT ![r] = "unanswered"]
        /\ UNCHANGED <<resp, alive>>
     \/ \* fatal
        /\ phase' = [q \in Requests |->
                       IF q = r \/ InFlight(q) THEN "reset" ELSE phase[q]]
        /\ alive' = FALSE
        /\ resp' = resp
  /\ UNCHANGED <<endpoint, body, calls, parseVars, normVars, frontVars>>

Next ==
  \E r \in Requests :
    \/ Arrive(r)
    \/ AnswerFailure(r)
    \/ AnswerSuccess(r)
    \/ HandlerThrows(r)

Spec == Init /\ [][Next]_vars

(***************************************************************************)
(* SpecParse: the JSON-producing callLLM on every reply.                   *)
(***************************************************************************)
InitParse ==
  /\ BackendIdle
  /\ NormIdle
  /\ FrontIdle
  /\ parseReply \in JsonReplies
  /\ parseResult = NoResult

CallJson ==
  /\ parseResult = NoResult
  /\ parseResult' = callLLMJson(parseReply)
  /\ UNCHANGED <<parseReply, backendVars, normVars, frontVars>>

NextParse == CallJson

SpecParse == InitParse /\ [][NextParse]_vars

(***************************************************************************)
(* SpecNorm: normalize on every raw value and service.                     *)
(***************************************************************************)
InitNorm ==
  /\ BackendIdle
  /\ ParseIdle
  /\ FrontIdle
  /\ raw \in RawValues
  /\ serviceId \in ServiceIds
  /\ normalized = Pending

Normalize ==
  /\ normalized = Pending
  /\ normalized' = normalize(raw, serviceId)
  /\ UNCHANGED <<raw, serviceId, backendVars, parseVars, frontVars>>

NextNorm == Normalize

SpecNorm == InitNorm /\ [][NextNorm]_vars

(***************************************************************************)
(* The claims about the backend, under Spec.                               *)
(***************************************************************************)
Arrived(r) == phase[r] # "new"

\* A required field of the endpoint is missing from the body.
C1_MissingField(e, b) ==
  CASE e = "summarize" -> b.text = Undefined
    [] e = "email" -> b.details = Undefined
    [] e = "explain-code" -> b.code = Undefined
    [] e = "rewrite" -> b.text = Undefined \/ b.tone = Undefined

\* C1: a request to any of the four endpoints whose required field is
\* missing is answered 400 with success = false, and no upstream call is
\* made for it.
C1_MissingFieldRejected ==
  \A r \in Requests :
    Arrived(r) /\ C1_MissingField(endpoint[r], body[r]) =>
      /\ phase[r] = "done"
      /\ resp[r].status = 400
      /\ resp[r].success = FALSE
      /\ calls[r] = <<>>
      /\ reply[r] = NoReply

\* A rewrite request with a text and no tone was answered 400.
C1_Witness ==
  \E r \in Requests :
    /\ endpoint[r] = "rewrite"
    /\ Truthy(body[r].text)
    /\ body[r].tone = Undefined
    /\ resp[r].status = 400
    /\ calls[r] = <<>>

\* C2: when the upstream call fails (timeout, network failure, non-2xx
\* status), callLLM returns an error result and the handler answers 502 with
\* {success: false, service: the endpoint's id, error}; never 200.
C2_UpstreamFailureIs502 ==
  \A r \in Requests :
    reply[r].kind \in {"timeout", "network", "http"} =>
      /\ result[r].ok = FALSE
      /\ result[r].error.form =
           (IF reply[r].kind = "http" THEN "response" ELSE "message")
      /\ reply[r].kind = "http" => result[r].error.status = reply[r].status
      /\ phase[r] = "done"
      /\ resp[r].status = 502
      /\ resp[r].success = FALSE
      /\ resp[r].service = endpoint[r]
      /\ resp[r].error = result[r].error

\* A timed-out call and a call answered with a non-2xx status, both
\* answered 502.
C2_Witness ==
  \E r, q \in Requests :
    /\ reply[r].kind = "timeout"
    /\ resp[r].status = 502
    /\ reply[q].kind = "http"
    /\ resp[q].status = 502
    /\ endpoint[r] # endpoint[q]

\* C3: every request, for any JSON body, ends with exactly one response of
\* status 200, 400 or 502: no handler raises an unhandled exception or
\* leaves the request unanswered.
C3_AlwaysAnswered ==
  \A r \in Requests :
    /\ phase[r] \in {"new", "awaiting", "done"}
    /\ phase[r] = "done" => resp[r].status \in {200, 400, 502}

\* C4: an accepted request makes exactly one upstream call and a rejected
\* (400) request none; after an upstream failure the handler does not call
\* again, so no request ever has more than one call.
C4_AtMostOneCall ==
  \A r \in Requests :
    /\ Len(calls[r]) <= 1
    /\ resp[r].status = 400 => Len(calls[r]) = 0
    /\ Arrived(r) /\ resp[r].status # 400 => Len(calls[r]) = 1
    /\ reply[r].kind \in {"timeout", "network", "http"} =>
         Len(calls[r]) = 1 /\ phase[r] = "done"

\* One request was answered 502 after its only call failed, another was
\* rejected without a call.
C4_Witness ==
  \E r, q \in Requests :
    /\ reply[r].kind = "network"
    /\ resp[r].status = 502
    /\ Len(calls[r]) = 1
    /\ resp[q].status = 400
    /\ Len(calls[q]) = 0

\* The text of the first candidate of a reply, '' when there is none.
FirstCandidateText(u) ==
  IF u.hasCandidates /\ Len(u.candidates) > 0 /\ u.candidates[1].t = "string"
    THEN u.candidates[1].s
    ELSE <<>>

\* C5: when the upstream call succeeds, the endpoint answers 200 with
\* {success: true, service, input, output}, service being the id of the
\* endpoint called and output the trimmed text of the first candidate.
C5_SuccessEnvelope ==
  \A r \in Requests :
    result[r].ok =>
      /\ phase[r] = "done"
      /\ resp[r].status = 200
      /\ resp[r].success = TRUE
      /\ resp[r].service = endpoint[r]
      /\ resp[r].output = Str(Trim(FirstCandidateText(reply[r])))

\* The upstream reply is a 2xx object with no candidates or no text.
C8_EmptyReply(u) ==
  /\ u.kind = "ok"
  /\ u.hasData
  /\ \/ ~u.hasCandidates
     \/ Len(u.candidates) = 0
     \/ u.candidates[1] \in {Undefined, Str(<<>>)}

\* C8: when the upstream reply has no candidates or no text, callLLM returns
\* ok with data '' and the endpoint answers 200 with output ''.
C8_EmptyReplyIsEmptyOutput ==
  \A r \in Requests :
    C8_EmptyReply(reply[r]) =>
      /\ result[r] = Ok(Str(<<>>))
      /\ phase[r] = "done"
      /\ resp[r].status = 200
      /\ resp[r].output = Str(<<>>)

\* What a request's own endpoint, body and upstream reply allow its state
\* and response to be.
OwnOutcomes(e, b, u) ==
  IF Invalid(e, b) # "" THEN {<<"done", BadRequest(Invalid(e, b))>>}
  ELSE IF u = NoReply THEN {<<"awaiting", NoResp>>}
  ELSE IF ~callLLM(u).ok THEN {<<"done", BadGateway(e, callLLM(u).error)>>}
  ELSE IF EnvelopeThrows(e, b)
    THEN {<<"done", InternalError>>, <<"unanswered", NoResp>>, <<"reset", NoResp>>}
    ELSE {<<"done", Envelope(e, b, callLLM(u).data)>>}

\* C10: the backend is stateless across requests: under any interleaving,
\* what a request is answered is determined by its own endpoint, body and
\* upstream reply; no earlier or concurrent request changes it.
C10_Stateless ==
  \A r \in Requests :
    Arrived(r) =>
      <<phase[r], resp[r]>> \in OwnOutcomes(endpoint[r], body[r], reply[r])

(***************************************************************************)
(* The claim about the JSON-producing callLLM, under SpecParse.            *)
(***************************************************************************)
\* The text callLLM extracts from a 2xx reply with a body.
ExtractedText(u) ==
  IF u.hasCandidates /\ Len(u.candidates) > 0
       /\ u.candidates[1] \notin {Undefined, Str(<<>>)}
    THEN u.candidates[1]
    ELSE Str(<<>>)

\* C9: a failure to JSON-decode the fence-stripped model text never turns
\* the call into a failure: the call returns ok, and its data is the
\* original text, neither fence-stripped nor trimmed.
C9_DecodeFailurePassesThrough ==
  parseResult # NoResult /\ parseReply.kind = "ok" /\ parseReply.hasData =>
    /\ parseResult.ok
    /\ LET text == ExtractedText(parseReply)
       IN  text.t = "string" /\ ~JSONValid(Cleaned(text.s)) =>
             parseResult.data = text

\* A fenced text that is not JSON came back as it was.
C9_Witness ==
  /\ parseReply = OkReply(<<Str(<<Fence, "json", " ", "x", " ", Fence>>)>>)
  /\ parseResult = Ok(Str(<<Fence, "json", " ", "x", " ", Fence>>))

(***************************************************************************)
(* The claims about normalize, under SpecNorm.                             *)
(***************************************************************************)
\* The members a service reads.
ExpectedKeys(sid) ==
  CASE sid = "summarize" -> {"summary", "bullets"}
    [] sid = "email" -> {"subject", "body"}
    [] sid = "explain-code" -> {"summary", "steps", "complexity"}
    [] sid = "rewrite" -> {"rewritten"}
    [] OTHER -> {}

\* C6: normalize never raises an error and always produces a string, for
\* every raw value and every serviceId; when the expected fields are missing
\* the result is the serialization of the whole value.
C6_NormalizeTotal ==
  normalized # Pending =>
    /\ normalized.t = "string"
    /\ raw.t = "object"
         /\ (\A key \in ExpectedKeys(serviceId) : raw.f[key] = Absent) =>
         normalized.s = Dump(raw)

\* An object without the members of its service, and an object for a
\* service outside the four, were serialized.
C6_Witness ==
  /\ normalized.t = "string"
  /\ raw = RawObj([NoKeys EXCEPT !.rewritten = SField(<<"o", "k">>)])
  /\ serviceId \in {"summarize", "translate"}
  /\ normalized.s = <<"{", "\"", "rewritten", "\"", ":", "\"", "o", "k", "\"", "}">>

\* The bullets of a list from the last one back, each on its own line.
RECURSIVE C7_Bullets(_)
C7_Bullets(l) ==
  IF Len(l) = 0 THEN <<>>
  ELSE LET front == SubSeq(l, 1, Len(l) - 1)
       IN  C7_Bullets(front) \o (IF Len(front) > 0 THEN <<"\n">> ELSE <<>>)
           \o BulletMark \o l[Len(l)]

Typed == {<<>>, <<"a">>}

\* value || fallback, of a string
OrElse(value, fallback) == IF value = <<>> THEN fallback ELSE value

\* The body handleSubmit builds for the selected service.
RequestBody(svc, inp, ext) ==
  CASE svc = "summarize" -> [NoFields EXCEPT !.text = Str(inp)]
    [] svc = "email" ->
         [NoFields EXCEPT
            !.recipientRole = Str(OrElse(ext.recipientRole, <<"manager">>)),
            !.tone = Str(OrElse(ext.tone, <<"professional">>)),
            !.purpose = Str(<<"request">>),
            !.details = Str(inp)]
    [] svc = "explain-code" -> [NoFields EXCEPT !.code = Str(inp)]
    [] svc = "rewrite" ->
         [NoFields EXCEPT !.text = Str(inp),
                          !.tone = Str(OrElse(ext.tone, <<"friendly">>))]

\* The Response a fetch resolves with: its status and its body, which is
\* JSON or not.
NoResponse == [status |-> 0, isJson |-> FALSE, json |-> NoResp]
JsonResponse(j) == [status |-> j.status, isJson |-> TRUE, json |-> j]
\* An error page that is no JSON.
HtmlResponse == [status |-> 500, isJson |-> FALSE, json |-> NoResp]

\* resp.ok
IsOk(r) == r.status >= 200 /\ r.status <= 299

\* What POST /api/<svc> with body b can be answered.
Responses(svc, b) ==
  (IF Invalid(svc, b) # ""
     THEN {JsonResponse(BadRequest(Invalid(svc, b)))}
     ELSE {JsonResponse(BadGateway(svc, CaughtError(u))) :
             u \in {[NoReply EXCEPT !.kind = "timeout"]}}
          \cup {JsonResponse(Envelope(svc, b, Str(t))) : t \in {<<>>, <<"a">>}})
  \cup {HtmlResponse}

\* One call of handleSubmit that has not returned: what it sent, and where
\* it waits (await fetch, then await resp.json()).
Call(svc, b) ==
  [service |-> svc, body |-> b, stage |-> "fetching", response |-> NoResponse]

Without(seq, i) == SubSeq(seq, 1, i - 1) \o SubSeq(seq, i + 1, Len(seq))

\* onChange of the textarea
TypeInput ==
  /\ \E t \in Typed : input' = t
  /\ UNCHANGED <<service, extra, loading, jsonResult, error, pending, cleared>>
  /\ UNCHANGED <<backendVars, parseVars, normVars>>

\* onChange of the recipient role and tone inputs, rendered for email and
\* (the tone) for rewrite
TypeExtra ==
  /\ \/ /\ service = "email"
        /\ \E t \in Typed : extra' = [extra EXCEPT !.recipientRole = t]
     \/ /\ service \in {"email", "rewrite"}
        /\ \E t \in Typed : extra' = [extra EXCEPT !.tone = t]
  /\ UNCHANGED <<service, input, loading, jsonResult, error, pending, cleared>>
  /\ UNCHANGED <<backendVars, parseVars, normVars>>

\* onClick of a service card
SelectService ==
  /\ \E svc \in Services : service' = svc
  /\ jsonResult' = Null
  /\ error' = Null
  /\ cleared' = TRUE
  /\ UNCHANGED <<input, extra, loading, pending>>
  /\ UNCHANGED <<backendVars, parseVars, normVars>>

\* onClick of the Clear button
Clear ==
  /\ input' = <<>>
  /\ jsonResult' = Null
  /\ error' = Null
  /\ cleared' = TRUE
  /\ UNCHANGED <<service, extra, loading, pending>>
  /\ UNCHANGED <<backendVars, parseVars, normVars>>

\* Submit, with the error of the last submit left in place.
Submit_KeepsError ==
  /\ ~loading
  /\ loading' = TRUE
  /\ jsonResult' = Null
  /\ pending' = Append(pending, Call(service, RequestBody(service, input, extra)))
  /\ cleared' = FALSE
  /\ UNCHANGED <<service, input, extra, error>>
  /\ UNCHANGED <<backendVars, parseVars, normVars>>

\* The form is submitted (the submit button is disabled while loading), and
\* handleSubmit runs up to await fetch.
Submit ==
  /\ ~loading
  /\ loading' = TRUE
  /\ error' = Null
  /\ jsonResult' = Null
  /\ pending' = Append(pending, Call(service, RequestBody(service, input, extra)))
  /\ cleared' = FALSE
  /\ UNCHANGED <<service, input, extra>>
  /\ UNCHANGED <<backendVars, parseVars, normVars>>

\* FetchRejects, with setLoading(false) at the end of the try block only.
FetchRejects_NoFinally ==
  /\ \E i \in 1..Len(pending) :
       /\ pending[i].stage = "fetching"
       /\ pending' = Without(pending, i)
  /\ error' = Message("Failed to fetch")
  /\ UNCHANGED <<service, input, extra, loading, jsonResult, cleared>>
  /\ UNCHANGED <<backendVars, parseVars, normVars>>

\* The fetch rejects (the backend cannot be reached): catch, then finally.
FetchRejects ==
  /\ \E i \in 1..Len(pending) :
       /\ pending[i].stage = "fetching"
       /\ pending' = Without(pending, i)
  /\ error' = Message("Failed to fetch")
  /\ loading' = FALSE
  /\ UNCHANGED <<service, input, extra, jsonResult, cleared>>
  /\ UNCHANGED <<backendVars, parseVars, normVars>>

\* The fetch resolves with a Response; handleSubmit goes on to await
\* resp.json().
FetchResolves ==
  /\ \E i \in 1..Len(pending) :
       /\ pending[i].stage = "fetching"
       /\ \E r \in Responses(pending[i].service, pending[i].body) :
            pending' = [pending EXCEPT ![i].stage = "reading", ![i].response = r]
  /\ UNCHANGED <<service, input, extra, loading, jsonResult, error, cleared>>
  /\ UNCHANGED <<backendVars, parseVars, normVars>>

\* resp.json() settles: setError(json) or setJsonResult(json), or the catch
\* block when the body is no JSON; then finally.
ReadSettles ==
  /\ \E i \in 1..Len(pending) :
       /\ pending[i].stage = "reading"
       /\ LET r == pending[i].response
          IN  IF ~r.isJson
                THEN /\ error' = Message("Unexpected token")
                     /\ jsonResult' = jsonResult
                ELSE IF ~IsOk(r)
                  THEN /\ error' = Json(r.json)
                       /\ jsonResult' = jsonResult
                  ELSE /\ jsonResult' = Json(r.json)
                       /\ error' = error
       /\ pending' = Without(pending, i)
  /\ loading' = FALSE
  /\ UNCHANGED <<service, input, extra, cleared>>
  /\ UNCHANGED <<backendVars, parseVars, normVars>>

InitFront == BackendIdle /\ ParseIdle /\ NormIdle /\ FrontIdle

NextFront ==
  \/ TypeInput
  \/ TypeExtra
  \/ SelectService
  \/ Clear
  \/ Submit
  \/ FetchRejects
  \/ FetchResolves
  \/ ReadSettles

SpecFront == InitFront /\ [][NextFront]_vars

\* A fetch that was started settles, and so does the reading of its body.
SpecFrontLive ==
  /\ SpecFront
  /\ WF_vars(FetchRejects \/ FetchResolves)
  /\ WF_vars(ReadSettles)

(***************************************************************************)
(* The claims about the frontend.                                          *)
(***************************************************************************)
\* C11: after Clear or a click on a service card, jsonResult and error are
\* both null and stay null until the next submit, also when a request was in
\* flight at the click.
C11_ResetStaysCleared ==
  cleared => (jsonResult = Null /\ error = Null)

\* C12: jsonResult and error are never both non-null.
C12_NotBoth ==
  ~(jsonResult # Null /\ error # Null)

\* A submit has returned with an OK response, and its result is shown.
C12_Witness ==
  /\ jsonResult # Null
  /\ error = Null
  /\ ~loading
  /\ ~cleared

\* C13: loading is true exactly while a request is in flight, at most one
\* request is in flight at a time, and every submit is followed by
\* loading = false, however the fetch settles.
C13_LoadingTracksRequest ==
  /\ [](loading <=> Len(pending) >= 1)
  /\ [](Len(pending) <= 1)
  /\ (loading ~> ~loading)

\* A submit has returned through the catch block, and nothing is in flight.
C13_Witness ==
  /\ ~loading
  /\ pending = <<>>
  /\ ~cleared
  /\ error # Null
  /\ error.message # ""
====
